---------------------------- MODULE Spec2Model ----------------------------
(***************************************************************************)
(* Model of src/index.tsx: the App component of upbit_rsi_live.            *)
(*                                                                         *)
(* The component state (markets, isLoading, isIntervalLoading, error,      *)
(* selectedInterval), the snapshot fetcher fetchTopMarkets, the interval   *)
(* effect with fetchIntervalData, and the pure function calculateRSI.      *)
(*                                                                         *)
(* JavaScript runs one callback at a time: an action of this model is one  *)
(* macrotask (a click, a network response) together with the promise       *)
(* continuations and the React render + effects it triggers.               *)
(*                                                                         *)
(* Numbers that the code computes by division are exact rationals          *)
(* [n, d] here (the code uses IEEE doubles).                               *)
(***************************************************************************)
EXTENDS Integers, Sequences, FiniteSets, TLC

----------------------------------------------------------------------------
(* Program constants *)

RSI_PERIOD == 14

BATCH_SIZE == 100

\* .slice(0, 15)
TOP_COUNT == 15

(* Bounds of the model *)

\* KRW markets in the catalog of the full application specification
MaxMarkets == 2

\* interval fetches started in one session
MaxOps == 2

\* KRW markets in the largest catalog of the snapshot specification
MaxCodes == 250

\* calculateRSI on its own: the longest price sequence, the largest period,
\* the largest price
MaxLen == 4

MaxPeriod == 3

MaxPrice == 3

----------------------------------------------------------------------------
(* Exact rational arithmetic *)

Abs(x) == IF x < 0 THEN -x ELSE x

RECURSIVE Gcd(_, _)
Gcd(a, b) == IF b = 0 THEN a ELSE Gcd(b, a % b)

\* the rational n/d (d # 0) in lowest terms with a positive denominator
Rat(n, d) ==
    LET g == Gcd(Abs(n), Abs(d))
        s == IF d < 0 THEN -1 ELSE 1
    IN  [n |-> (s * n) \div g, d |-> (s * d) \div g]

RInt(i) == [n |-> i, d |-> 1]

RAdd(a, b) == Rat(a.n * b.d + b.n * a.d, a.d * b.d)

RSub(a, b) == Rat(a.n * b.d - b.n * a.d, a.d * b.d)

RMul(a, b) == Rat(a.n * b.n, a.d * b.d)

RDiv(a, b) == Rat(a.n * b.d, a.d * b.n)

----------------------------------------------------------------------------
(* Values of changeRate and rsi: number | null | undefined *)

Undefined == [k |-> "undefined", n |-> 0, d |-> 1]

Null == [k |-> "null", n |-> 0, d |-> 1]

Num(r) == [k |-> "num", n |-> r.n, d |-> r.d]

IsNum(v) == v.k = "num"

----------------------------------------------------------------------------
(* calculateRSI *)

\* prices.slice(1).map((price, i) => price - prices[i])
Changes(prices) ==
    [i \in 1..(Len(prices) - 1) |-> prices[i + 1] - prices[i]]

RECURSIVE SumGains(_, _)
\* changes.slice(0, k).filter(c => c > 0).reduce((acc, v) => acc + v, 0)
SumGains(changes, k) ==
    IF k = 0 THEN 0
    ELSE SumGains(changes, k - 1) + (IF changes[k] > 0 THEN changes[k] ELSE 0)

RECURSIVE SumLosses(_, _)
\* changes.slice(0, k).filter(c => c < 0).reduce((acc, v) => acc + Math.abs(v), 0)
SumLosses(changes, k) ==
    IF k = 0 THEN 0
    ELSE SumLosses(changes, k - 1) + (IF changes[k] < 0 THEN Abs(changes[k]) ELSE 0)

\* SeedAvgGain as the mean of the gains: initialGains / (number of gains)
SeedAvgGain_MeanOfGains(prices, period) ==
    LET changes == Changes(prices)
        gains == {i \in 1..period : changes[i] > 0}
    IN  IF gains = {} THEN RInt(0)
        ELSE Rat(SumGains(changes, period), Cardinality(gains))

\* the seed averages: initialGains / period, initialLosses / period
SeedAvgGain(prices, period) == Rat(SumGains(Changes(prices), period), period)

SeedAvgLoss(prices, period) == Rat(SumLosses(Changes(prices), period), period)

RECURSIVE Smooth(_, _, _, _)
\* the for loop: the averages [gain, loss] after the changes up to index k
\* (1-based; the code's i = k - 1)
Smooth(changes, period, k, seed) ==
    IF k <= period THEN seed
    ELSE LET prev   == Smooth(changes, period, k - 1, seed)
             change == changes[k]
             gain   == IF change > 0 THEN change ELSE 0
             loss   == IF change < 0 THEN Abs(change) ELSE 0
         IN  [gain |-> RDiv(RAdd(RMul(prev.gain, RInt(period - 1)), RInt(gain)),
                            RInt(period)),
              loss |-> RDiv(RAdd(RMul(prev.loss, RInt(period - 1)), RInt(loss)),
                            RInt(period))]

\* calculateRSI with `prices.length < period` as its guard
calculateRSI_StrictGuard(prices, period) ==
    IF Len(prices) < period THEN Null
    ELSE LET changes == Changes(prices)
             first == IF period < Len(changes) THEN period ELSE Len(changes)
             avg == Smooth(changes, period, Len(changes),
                           [gain |-> Rat(SumGains(changes, first), period),
                            loss |-> Rat(SumLosses(changes, first), period)])
         IN  IF avg.loss.n = 0 THEN Num(RInt(100))
             ELSE LET rs == RDiv(avg.gain, avg.loss)
                  IN  Num(RSub(RInt(100), RDiv(RInt(100), RAdd(RInt(1), rs))))

calculateRSI(prices, period) ==
    IF Len(prices) <= period THEN Null
    ELSE LET changes == Changes(prices)
             avg == Smooth(changes, period, Len(changes),
                           [gain |-> SeedAvgGain(prices, period),
                            loss |-> SeedAvgLoss(prices, period)])
         IN  IF avg.loss.n = 0 THEN Num(RInt(100))
             ELSE LET rs == RDiv(avg.gain, avg.loss)
                  IN  Num(RSub(RInt(100), RDiv(RInt(100), RAdd(RInt(1), rs))))

----------------------------------------------------------------------------
(* The upstream API: what the three endpoints answer *)

Min(a, b) == IF a < b THEN a ELSE b

\* a market code "KRW-<sym>" / "BTC-<sym>"
Code(quote, sym) == [quote |-> quote, sym |-> sym]

\* one record of /v1/market/all
MarketRecord(quote, sym) ==
    [market |-> Code(quote, sym),
     korean_name |-> <<"ko", quote, sym>>,
     english_name |-> <<"en", quote, sym>>]

\* the catalog of an upstream with u.other non-KRW markets and u.n KRW markets
Catalog(u) ==
    [i \in 1..(u.other + u.n) |->
        IF i <= u.other THEN MarketRecord("BTC", i)
        ELSE MarketRecord("KRW", i - u.other)]

\* acc_trade_price_24h of KRW market sym, in an upstream of n KRW markets
Volume(u, sym) ==
    CASE u.pat = "asc"  -> sym
      [] u.pat = "mix"  -> IF sym % 2 = 0 THEN u.n + sym ELSE sym
      [] u.pat = "tie"  -> 1 + (sym % 3)

\* the body of /v1/ticker?markets=<batch>: one record per requested code
TickerBody(u, batch) ==
    [j \in 1..Len(batch) |->
        [market |-> batch[j], acc_trade_price_24h |-> Volume(u, batch[j].sym)]]

\* non-successful HTTP statuses the upstream answers with
FailureStatuses == {429, 500}

\* bodies of /v1/candles/<interval>?market=..&count=100, newest candle first:
\* JSON null, an empty array, RSI_PERIOD candles, more than RSI_PERIOD candles
CandleSeq(len) ==
    [i \in 1..len |->
        [opening_price |-> 100 + ((i * 2) % 3),
         trade_price |-> 100 + ((i * 3) % 5)]]

CandleBody(kind) ==
    CASE kind = "null"  -> [isNull |-> TRUE, candles |-> <<>>]
      [] kind = "empty" -> [isNull |-> FALSE, candles |-> <<>>]
      [] kind = "short" -> [isNull |-> FALSE, candles |-> CandleSeq(RSI_PERIOD)]
      [] kind = "full"  -> [isNull |-> FALSE, candles |-> CandleSeq(RSI_PERIOD + 2)]

CandleBodyKinds == {"null", "empty", "short", "full"}

\* how a candle request can settle: fetch() rejects, a non-OK response, an OK
\* response whose json() rejects, an OK response with one of the bodies
CandleOutcomes == {"rejected", "notOk", "badBody"} \cup CandleBodyKinds

\* the interval buttons (a subset of the nine) and the 24h button
Intervals == {"minutes/1", "days"}

Baseline == "24h"

----------------------------------------------------------------------------
(* State *)

VARIABLES
    markets,            \* useState<MarketWithData[]>([])
    isLoading,          \* useState(true)
    isIntervalLoading,  \* useState(false)
    error,              \* useState<string | null>(null)
    selectedInterval,   \* useState('24h')
    upstream,           \* what the API serves in this session
    snapPc,             \* fetchTopMarkets: "catalog", "ticker" or "done"
    krwMarkets,         \* fetchTopMarkets: krwMarkets
    batchStart,         \* fetchTopMarkets: the loop variable i
    tickerData,         \* fetchTopMarkets: tickerData
    tickerLog,          \* history: the ticker requests issued, in order
    tickerAnswers,      \* history: the answers received, in order
    catalogAnswer,      \* history: the answer to the catalog request
    ops,                \* the fetchIntervalData calls made, in order
    writer,             \* history: per entry of markets, the call that last
                        \* wrote its changeRate/rsi (0: none)
    call                \* a function called on its own: arguments and result

vars == <<markets, isLoading, isIntervalLoading, error, selectedInterval,
          upstream, snapPc, krwMarkets, batchStart, tickerData, tickerLog,
          tickerAnswers, catalogAnswer, ops, writer, call>>

\* the state of the component and of its fetches
appVars == <<markets, isLoading, isIntervalLoading, error, selectedInterval,
             upstream, snapPc, krwMarkets, batchStart, tickerData, tickerLog,
             tickerAnswers, catalogAnswer, ops, writer>>

\* no function is called on its own
NoCall == [fn |-> "none"]

snapVars == <<upstream, snapPc, krwMarkets, batchStart, tickerData, tickerLog,
              tickerAnswers, catalogAnswer>>

\* error: null or a message (with the HTTP status it carries, 0 if none)
NoError == [msg |-> "null", status |-> 0]

ErrorMsg(msg, status) == [msg |-> msg, status |-> status]

----------------------------------------------------------------------------
(* fetchTopMarkets: pure steps *)

\* allMarkets.filter(m => m.market.startsWith('KRW-'))
FilterKrw(allMarkets) == SelectSeq(allMarkets, LAMBDA m : m.market.quote = "KRW")

\* krwMarkets.map(m => m.market)
MarketCodes(ms) == [j \in 1..Len(ms) |-> ms[j].market]

\* Batch with an inclusive end: slice(i, i + BATCH_SIZE + 1)
Batch_InclusiveEnd(codes, i) == SubSeq(codes, i + 1, Min(i + BATCH_SIZE + 1, Len(codes)))

\* krwMarketCodes.slice(i, i + BATCH_SIZE)
Batch(codes, i) == SubSeq(codes, i + 1, Min(i + BATCH_SIZE, Len(codes)))

\* BatchesToIssue without the await in the loop: every remaining batch goes
\* out at once
BatchesToIssue_Parallel(codes, i) ==
    [b \in 1..((Len(codes) - i + BATCH_SIZE - 1) \div BATCH_SIZE) |->
        Batch(codes, i + (b - 1) * BATCH_SIZE)]

\* the requests the loop has outstanding once it reaches offset i: the code
\* awaits each batch before it builds the next one
BatchesToIssue(codes, i) == <<Batch(codes, i)>>

\* marketInfoMap.get(code)?.<field> || '' (a later record of a code wins in Map)
InfoOf(ms, code) ==
    LET hits == {j \in 1..Len(ms) : ms[j].market = code}
    IN  IF hits = {}
        THEN [korean_name |-> <<>>, english_name |-> <<>>]
        ELSE LET j == CHOOSE x \in hits : \A y \in hits : y <= x
             IN  [korean_name |-> ms[j].korean_name,
                  english_name |-> ms[j].english_name]

\* an evaluated copy of a sequence given by a rule: TLC evaluates each element
\* once here instead of at every use
Seq1(f) == <<>> \o f

\* tickerData.map(ticker => ({...ticker, korean_name, english_name})); the
\* optional changeRate and rsi are absent, which reads as undefined
Combine(tickers, ms) ==
    Seq1([j \in 1..Len(tickers) |->
            LET info == InfoOf(ms, tickers[j].market)
            IN  [market |-> tickers[j].market,
                 korean_name |-> info.korean_name,
                 english_name |-> info.english_name,
                 acc_trade_price_24h |-> tickers[j].acc_trade_price_24h,
                 changeRate |-> Undefined,
                 rsi |-> Undefined]])

\* SortByVolumeDesc with the comparator reversed (a - b): ascending
SortByVolumeDesc_Ascending(seq) ==
    LET n == Len(seq)
        before(i) == {j \in 1..n :
                        \/ seq[j].acc_trade_price_24h < seq[i].acc_trade_price_24h
                        \/ /\ seq[j].acc_trade_price_24h = seq[i].acc_trade_price_24h
                           /\ j < i}
        pos == Seq1([i \in 1..n |-> Cardinality(before(i)) + 1])
        idx == Seq1([p \in 1..n |-> CHOOSE i \in 1..n : pos[i] = p])
    IN  Seq1([p \in 1..n |-> seq[idx[p]]])

\* .sort((a, b) => b.acc_trade_price_24h - a.acc_trade_price_24h): Array.sort
\* is stable, so an element lands behind every larger one and behind the equal
\* ones that came before it
SortByVolumeDesc(seq) ==
    LET n == Len(seq)
        before(i) == {j \in 1..n :
                        \/ seq[j].acc_trade_price_24h > seq[i].acc_trade_price_24h
                        \/ /\ seq[j].acc_trade_price_24h = seq[i].acc_trade_price_24h
                           /\ j < i}
        pos == Seq1([i \in 1..n |-> Cardinality(before(i)) + 1])
        idx == Seq1([p \in 1..n |-> CHOOSE i \in 1..n : pos[i] = p])
    IN  Seq1([p \in 1..n |-> seq[idx[p]]])

\* .slice(0, 15)
Top(seq) == SubSeq(seq, 1, Min(TOP_COUNT, Len(seq)))

\* top15Markets
TopMarkets(tickers, ms) == Top(SortByVolumeDesc(Combine(tickers, ms)))

----------------------------------------------------------------------------
(* The interval effect: useEffect(..., [selectedInterval, markets.length]) *)

\* ResetMarkets that forgets to reset rsi
ResetMarkets_KeepRsi(ms) ==
    [j \in 1..Len(ms) |-> [ms[j] EXCEPT !.changeRate = Undefined]]

\* currentMarkets.map(m => ({...m, changeRate: undefined, rsi: undefined}))
ResetMarkets(ms) ==
    [j \in 1..Len(ms) |-> [ms[j] EXCEPT !.changeRate = Undefined, !.rsi = Undefined]]

\* EffectReturnsEarly without the `markets.length === 0` return
EffectReturnsEarly_NoEmptyCheck(interval, ms) == interval = Baseline

\* the effect returns before fetchIntervalData() is reached
EffectReturnsEarly(interval, ms) == interval = Baseline \/ Len(ms) = 0

\* fetchIntervalData up to its first await: one pending candle request per
\* market of the render's markets
NewOp(interval, ms) ==
    [interval |-> interval,
     codes |-> MarketCodes(ms),
     reqs |-> [j \in 1..Len(ms) |->
                 [st |-> "pending", outcome |-> "none",
                  changeRate |-> Null, rsi |-> Null]],
     pc |-> "waiting",
     writes |-> 0]

\* the effect body, run after a render in which interval or Len(ms) changed;
\* ms and wr are the list and its history as that render sees them
RunEffect(interval, ms, wr) ==
    IF interval = Baseline
    THEN /\ markets' = ResetMarkets(ms)
         /\ writer' = [j \in 1..Len(ms) |-> 0]
         /\ UNCHANGED <<ops, isIntervalLoading>>
    ELSE /\ markets' = ms
         /\ writer' = wr
         /\ IF EffectReturnsEarly(interval, ms)
            THEN UNCHANGED <<ops, isIntervalLoading>>
            ELSE /\ ops' = Append(ops, NewOp(interval, ms))
                 /\ isIntervalLoading' = TRUE

----------------------------------------------------------------------------
(* fetchTopMarkets: steps *)

\* SnapshotFails that first stores what the earlier batches returned
SnapshotFails_KeepPartial(msg) ==
    /\ error' = msg
    /\ isLoading' = FALSE
    /\ snapPc' = "done"
    /\ markets' = TopMarkets(tickerData, krwMarkets)
    /\ writer' = [j \in 1..Len(markets') |-> 0]
    /\ UNCHANGED <<ops, isIntervalLoading, selectedInterval>>

\* SnapshotFails without the finally: isLoading stays as it is
SnapshotFails_NoFinally(msg) ==
    /\ error' = msg
    /\ snapPc' = "done"
    /\ UNCHANGED <<isLoading, markets, writer, ops, isIntervalLoading, selectedInterval>>

\* catch + finally
SnapshotFails(msg) ==
    /\ error' = msg
    /\ isLoading' = FALSE
    /\ snapPc' = "done"
    /\ UNCHANGED <<markets, writer, ops, isIntervalLoading, selectedInterval>>

\* SnapshotSucceeds whose render runs no effect
SnapshotSucceeds_NoEffect(tickers) ==
    /\ isLoading' = FALSE
    /\ snapPc' = "done"
    /\ markets' = TopMarkets(tickers, krwMarkets')
    /\ writer' = [j \in 1..Len(markets') |-> 0]
    /\ UNCHANGED <<error, selectedInterval, ops, isIntervalLoading>>

\* lines 127-138, finally, and the render that follows: the effect runs again
\* only if markets.length changed
SnapshotSucceeds(tickers) ==
    LET top == TopMarkets(tickers, krwMarkets')
    IN  /\ isLoading' = FALSE
        /\ snapPc' = "done"
        /\ UNCHANGED <<error, selectedInterval>>
        /\ IF Len(top) # Len(markets)
           THEN RunEffect(selectedInterval, top, [j \in 1..Len(top) |-> 0])
           ELSE /\ markets' = top
                /\ writer' = [j \in 1..Len(top) |-> 0]
                /\ UNCHANGED <<ops, isIntervalLoading>>

\* the loop at offset i with the ticker records collected so far
LoopAt(i, tickers) ==
    /\ batchStart' = i
    /\ tickerData' = tickers
    /\ IF i < Len(krwMarkets')
       THEN /\ tickerLog' = tickerLog \o BatchesToIssue(MarketCodes(krwMarkets'), i)
            /\ snapPc' = "ticker"
            /\ UNCHANGED <<markets, writer, ops, isIntervalLoading, isLoading,
                           error, selectedInterval>>
       ELSE /\ UNCHANGED tickerLog
            /\ SnapshotSucceeds(tickers)

\* the answer to fetch(.../v1/market/all)
CatalogResponse ==
    /\ snapPc = "catalog"
    /\ UNCHANGED <<upstream, call>>
    /\ \/ \* fetch() rejects, or marketResponse.json() does
          /\ catalogAnswer' = "rejected"
          /\ SnapshotFails(ErrorMsg("Failed to fetch", 0))
          /\ UNCHANGED <<krwMarkets, batchStart, tickerData, tickerLog, tickerAnswers>>
       \/ \* !marketResponse.ok
          \E status \in FailureStatuses :
            /\ catalogAnswer' = "notOk"
            /\ SnapshotFails(ErrorMsg("Failed to fetch market list. Status: ", status))
            /\ UNCHANGED <<krwMarkets, batchStart, tickerData, tickerLog, tickerAnswers>>
       \/ /\ catalogAnswer' = "ok"
          /\ krwMarkets' = FilterKrw(Catalog(upstream))
          /\ UNCHANGED tickerAnswers
          /\ LoopAt(0, <<>>)

\* the answer to the ticker request in flight
TickerResponse ==
    /\ snapPc = "ticker"
    /\ Len(tickerAnswers) < Len(tickerLog)
    /\ UNCHANGED <<upstream, krwMarkets, catalogAnswer, call>>
    /\ \/ \* fetch() rejects, or tickerResponse.json() does
          /\ tickerAnswers' = Append(tickerAnswers, "rejected")
          /\ SnapshotFails(ErrorMsg("Failed to fetch", 0))
          /\ UNCHANGED <<batchStart, tickerData, tickerLog>>
       \/ \* !tickerResponse.ok
          \E status \in FailureStatuses :
            /\ tickerAnswers' = Append(tickerAnswers, "notOk")
            /\ SnapshotFails(ErrorMsg("Failed to fetch ticker data. Status: ", status))
            /\ UNCHANGED <<batchStart, tickerData, tickerLog>>
       \/ /\ tickerAnswers' = Append(tickerAnswers, "ok")
          /\ LoopAt(batchStart + BATCH_SIZE,
                    tickerData \o TickerBody(upstream, tickerLog[Len(tickerAnswers) + 1]))

----------------------------------------------------------------------------
(* fetchIntervalData: pure steps *)

\* candleData.map(c => c.trade_price).reverse()
ReversedPrices(candles) ==
    [i \in 1..Len(candles) |-> candles[Len(candles) + 1 - i].trade_price]

\* lines 165-178: what the map callback returns for an OK response with body
ResultOfBody(body) ==
    IF ~body.isNull /\ Len(body.candles) > 0
    THEN LET latestCandle == body.candles[1]
         IN  [changeRate |->
                Num(RMul(Rat(latestCandle.trade_price - latestCandle.opening_price,
                             latestCandle.opening_price),
                         RInt(100))),
              rsi |->
                IF Len(body.candles) > RSI_PERIOD
                THEN calculateRSI(ReversedPrices(body.candles), RSI_PERIOD)
                ELSE Null]
    ELSE [changeRate |-> Null, rsi |-> Null]

\* the callback's result for each body the upstream serves
BodyResults == [kind \in CandleBodyKinds |-> ResultOfBody(CandleBody(kind))]

\* SettledRequest with `if (!response.ok) throw ...`: a non-OK response rejects
SettledRequest_ThrowOnNotOk(outcome) ==
    CASE outcome \in {"rejected", "badBody", "notOk"} ->
            [st |-> "rejected", outcome |-> outcome,
             changeRate |-> Null, rsi |-> Null]
      [] OTHER ->
            [st |-> "fulfilled", outcome |-> outcome,
             changeRate |-> BodyResults[outcome].changeRate,
             rsi |-> BodyResults[outcome].rsi]

\* the promise of one map callback once its request settled with outcome
SettledRequest(outcome) ==
    CASE outcome \in {"rejected", "badBody"} ->
            [st |-> "rejected", outcome |-> outcome,
             changeRate |-> Null, rsi |-> Null]
      [] outcome = "notOk" ->
            [st |-> "fulfilled", outcome |-> outcome,
             changeRate |-> Null, rsi |-> Null]
      [] OTHER ->
            [st |-> "fulfilled", outcome |-> outcome,
             changeRate |-> BodyResults[outcome].changeRate,
             rsi |-> BodyResults[outcome].rsi]

\* PromiseAll settling with the first fulfilled promise, as Promise.any does
PromiseAll_Any(reqs) ==
    IF \E j \in 1..Len(reqs) : reqs[j].st = "fulfilled" THEN "fulfilled"
    ELSE IF \A j \in 1..Len(reqs) : reqs[j].st = "rejected" THEN "rejected"
    ELSE "pending"

\* Promise.all(promises): rejected with the first rejection, fulfilled once
\* every promise is fulfilled
PromiseAll(reqs) ==
    IF \E j \in 1..Len(reqs) : reqs[j].st = "rejected" THEN "rejected"
    ELSE IF \A j \in 1..Len(reqs) : reqs[j].st = "fulfilled" THEN "fulfilled"
    ELSE "pending"

\* the indexes of results: the requests whose promise is fulfilled
ResultIndexes(reqs) == {j \in 1..Len(reqs) : reqs[j].st = "fulfilled"}

\* newIntervalData.has(code)
HasResult(codes, reqs, code) ==
    \E j \in ResultIndexes(reqs) : codes[j] = code

\* newIntervalData.get(code)?.<field>: the last result of that code, else undefined
Lookup(codes, reqs, code) ==
    LET hits == {j \in ResultIndexes(reqs) : codes[j] = code}
    IN  IF hits = {}
        THEN [changeRate |-> Undefined, rsi |-> Undefined]
        ELSE LET j == CHOOSE x \in hits : \A y \in hits : y <= x
             IN  [changeRate |-> reqs[j].changeRate, rsi |-> reqs[j].rsi]

\* Merge that drops the markets whose change rate is unavailable
Merge_DropUnavailable(currentMarkets, codes, reqs) ==
    SelectSeq([j \in 1..Len(currentMarkets) |->
                 [currentMarkets[j] EXCEPT
                    !.changeRate = Lookup(codes, reqs, currentMarkets[j].market).changeRate,
                    !.rsi = Lookup(codes, reqs, currentMarkets[j].market).rsi]],
              LAMBDA m : m.changeRate # Null)

\* Merge that discards the results: the list stays as it is
Merge_Discard(currentMarkets, codes, reqs) == currentMarkets

\* currentMarkets.map(m => ({...m, changeRate: ..., rsi: ...}))
Merge(currentMarkets, codes, reqs) ==
    [j \in 1..Len(currentMarkets) |->
        [currentMarkets[j] EXCEPT
            !.changeRate = Lookup(codes, reqs, currentMarkets[j].market).changeRate,
            !.rsi = Lookup(codes, reqs, currentMarkets[j].market).rsi]]

IntervalError == ErrorMsg("candle data loading failed", 0)

----------------------------------------------------------------------------
(* The user and the candle responses *)

\* SelectInterval that also clears the error, as fetchTopMarkets does on entry
SelectInterval_ClearsError(interval) ==
    /\ interval # selectedInterval
    /\ EffectReturnsEarly(interval, markets) \/ Len(ops) < MaxOps
    /\ selectedInterval' = interval
    /\ RunEffect(interval, markets, writer)
    /\ error' = NoError
    /\ UNCHANGED isLoading
    /\ UNCHANGED <<snapVars, call>>

\* onClick={() => setSelectedInterval(interval)}, the render and its effects;
\* setting the value the state already has renders nothing
SelectInterval(interval) ==
    /\ interval # selectedInterval
    /\ EffectReturnsEarly(interval, markets) \/ Len(ops) < MaxOps
    /\ selectedInterval' = interval
    /\ RunEffect(interval, markets, writer)
    /\ UNCHANGED <<isLoading, error>>
    /\ UNCHANGED <<snapVars, call>>

\* request k of call o settles; the continuation of Promise.all runs in the
\* same turn when this settles it
CandleSettles(o, k, outcome) ==
    LET op   == ops[o]
        reqs == [op.reqs EXCEPT ![k] = SettledRequest(outcome)]
        join == IF op.pc = "waiting" THEN PromiseAll(reqs) ELSE "pending"
    IN  /\ op.reqs[k].st = "pending"
        /\ CASE join = "fulfilled" ->
                  /\ markets' = Merge(markets, op.codes, reqs)
                  /\ writer' = [j \in 1..Len(markets) |->
                                  IF HasResult(op.codes, reqs, markets[j].market)
                                  THEN o ELSE 0]
                  /\ isIntervalLoading' = FALSE
                  /\ ops' = [ops EXCEPT ![o] = [op EXCEPT !.reqs = reqs,
                                                          !.pc = "done",
                                                          !.writes = @ + 1]]
                  /\ UNCHANGED error
             [] join = "rejected" ->
                  /\ error' = IntervalError
                  /\ isIntervalLoading' = FALSE
                  /\ ops' = [ops EXCEPT ![o] = [op EXCEPT !.reqs = reqs,
                                                          !.pc = "done"]]
                  /\ UNCHANGED <<markets, writer>>
             [] OTHER ->
                  /\ ops' = [ops EXCEPT ![o].reqs = reqs]
                  /\ UNCHANGED <<markets, writer, isIntervalLoading, error>>
        /\ UNCHANGED <<isLoading, selectedInterval>>
        /\ UNCHANGED <<snapVars, call>>

----------------------------------------------------------------------------
(* Specifications *)

\* after mount: fetchTopMarkets awaits the catalog; the interval effect ran
\* with '24h' on the empty list
InitApp ==
    /\ markets = <<>>
    /\ writer = <<>>
    /\ isLoading = TRUE
    /\ isIntervalLoading = FALSE
    /\ error = NoError
    /\ selectedInterval = Baseline
    /\ snapPc = "catalog"
    /\ krwMarkets = <<>>
    /\ batchStart = 0
    /\ tickerData = <<>>
    /\ tickerLog = <<>>
    /\ tickerAnswers = <<>>
    /\ catalogAnswer = "none"
    /\ ops = <<>>

\* the catalogs of the application specification
SmallUpstreams ==
    [n : 0..MaxMarkets, other : {1}, pat : {"asc"}]

\* the catalog sizes of the snapshot specification: around TOP_COUNT, around
\* the multiples of BATCH_SIZE, and the largest
SnapshotSizes ==
    {n \in 0..MaxCodes :
        \/ n <= TOP_COUNT + 2
        \/ n % BATCH_SIZE \in {0, 1, BATCH_SIZE - 1}
        \/ n = MaxCodes}

LargeUpstreams ==
    [n : SnapshotSizes, other : {0, 1}, pat : {"asc", "mix", "tie"}]

Init == InitApp /\ upstream \in SmallUpstreams /\ call = NoCall

Next ==
    \/ CatalogResponse
    \/ TickerResponse
    \/ \E interval \in Intervals \cup {Baseline} : SelectInterval(interval)
    \/ \E o \in 1..Len(ops) : \E k \in 1..Len(ops[o].reqs) :
         \E outcome \in CandleOutcomes : CandleSettles(o, k, outcome)

Spec == Init /\ [][Next]_vars

\* the snapshot fetcher alone, on the catalogs of real size: the user leaves
\* the 24h view selected
InitSnapshot == InitApp /\ upstream \in LargeUpstreams /\ call = NoCall

NextSnapshot ==
    \/ CatalogResponse
    \/ TickerResponse

SpecSnapshot == InitSnapshot /\ [][NextSnapshot]_vars

----------------------------------------------------------------------------
(* Properties of fetchIntervalData and the interval effect (Spec) *)

\* call o runs its continuation (the list update or the catch) in this step
Completes(o) == o <= Len(ops) /\ ops[o].pc = "waiting" /\ ops'[o].pc = "done"

\* the indexes of the requests of call o, after this step, with an outcome in S
WithOutcome(o, S) == {k \in 1..Len(ops'[o].reqs) : ops'[o].reqs[k].outcome \in S}

\* after this step, every entry of the list holds what call o computed for its
\* market: null/null for the outcomes in failed, numbers for the others
ListShowsResultsOf(o, failed) ==
    /\ Len(markets') = Len(ops'[o].reqs)
    /\ \A j \in 1..Len(markets') : \A k \in 1..Len(ops'[o].reqs) :
         ops'[o].codes[k] = markets'[j].market =>
            IF ops'[o].reqs[k].outcome \in failed
            THEN markets'[j].changeRate = Null /\ markets'[j].rsi = Null
            ELSE IsNum(markets'[j].changeRate) /\ IsNum(markets'[j].rsi)

\* C1: when exactly one candle request of a fetch gets a non-OK response and
\* every other one an OK response with more than RSI_PERIOD candles, the list
\* update of that fetch gives the failing market null/null and every sibling
\* numbers, and the fetch does not set the error state.
C1_OneNotOkIsLocal ==
    [][\A o \in 1..Len(ops) :
          ( /\ Completes(o)
            /\ Cardinality(WithOutcome(o, {"notOk"})) = 1
            /\ Cardinality(WithOutcome(o, {"full"})) = Len(ops[o].reqs) - 1 )
          => /\ ops'[o].writes = 1
             /\ ListShowsResultsOf(o, {"notOk"})
             /\ error' = error]_vars

\* a fetch over two markets has completed with one non-OK response and one
\* full body, and the list shows null/null beside numbers
C1_Witness ==
    \E o \in 1..Len(ops) :
        /\ ops[o].pc = "done" /\ ops[o].writes = 1
        /\ Len(markets) = 2
        /\ ops[o].reqs[1].outcome = "notOk" /\ ops[o].reqs[2].outcome = "full"
        /\ \A j \in 1..2 : writer[j] = o
        /\ \E j \in 1..2 : markets[j].changeRate = Null /\ markets[j].rsi = Null
        /\ \E j \in 1..2 : IsNum(markets[j].changeRate) /\ IsNum(markets[j].rsi)
        /\ error = NoError

\* C2 (as claimed): whatever way one candle request of a fetch fails (non-OK
\* response, fetch() rejecting, unreadable body), the fetch still ends by
\* updating the list, with null/null for the failing market, and does not set
\* the error state.
C2_AnyFailureIsLocal ==
    [][\A o \in 1..Len(ops) :
          ( /\ Completes(o)
            /\ Cardinality(WithOutcome(o, {"notOk", "rejected", "badBody"})) = 1 )
          => /\ ops'[o].writes = 1
             /\ \A j \in 1..Len(markets') : \A k \in 1..Len(ops'[o].reqs) :
                  ( /\ ops'[o].codes[k] = markets'[j].market
                    /\ ops'[o].reqs[k].outcome \in {"notOk", "rejected", "badBody"} )
                  => markets'[j].changeRate = Null /\ markets'[j].rsi = Null
             /\ error' = error]_vars

\* C3: a step in which the selected interval becomes '24h' leaves every entry
\* of the list with changeRate and rsi undefined and issues no request.
C3_BaselineResets ==
    [][(selectedInterval # Baseline /\ selectedInterval' = Baseline)
          => /\ \A j \in 1..Len(markets') :
                  /\ markets'[j].changeRate = Undefined
                  /\ markets'[j].rsi = Undefined
             /\ Len(markets') = Len(markets)
             /\ ops' = ops
             /\ tickerLog' = tickerLog]_vars

\* the 24h view was selected again after a fetch had filled the list (its
\* history shows the reset) and the entries are undefined
C3_Witness ==
    /\ selectedInterval = Baseline
    /\ Len(markets) = 2
    /\ \E o \in 1..Len(ops) : ops[o].writes = 1
    /\ \A j \in 1..2 : writer[j] = 0 /\ markets[j].rsi = Undefined
    /\ \A o \in 1..Len(ops) : ops[o].pc = "done"

\* C4 (as claimed): no fetch has completed while one of its own candle
\* requests is still pending.
C4_CompletesAfterAllSettle ==
    \A o \in 1..Len(ops) :
        ops[o].pc = "done" =>
            \A k \in 1..Len(ops[o].reqs) : ops[o].reqs[k].st # "pending"

\* C5: a fetch writes the list at most once, only after all its requests have
\* settled, and the entries of the list never differ in the fetch whose
\* results they carry.
C5_SingleAtomicWrite ==
    /\ \A o \in 1..Len(ops) :
          /\ ops[o].writes <= 1
          /\ ops[o].writes = 1 =>
                \A k \in 1..Len(ops[o].reqs) : ops[o].reqs[k].st # "pending"
    /\ \A i, j \in 1..Len(writer) : writer[i] = writer[j]

\* a fetch over two markets has written its results to both entries
C5_Witness ==
    \E o \in 1..Len(ops) :
        /\ ops[o].writes = 1
        /\ Len(markets) = 2
        /\ \A j \in 1..2 : writer[j] = o /\ markets[j].changeRate # Undefined

----------------------------------------------------------------------------
(* Properties of fetchTopMarkets (SpecSnapshot) *)

\* fetchTopMarkets reached setMarkets: every request was answered OK
SnapshotSucceeded ==
    /\ snapPc = "done"
    /\ catalogAnswer = "ok"
    /\ \A k \in 1..Len(tickerAnswers) : tickerAnswers[k] = "ok"

DistinctVolumes(tickers) ==
    \A i, j \in 1..Len(tickers) :
        i # j => tickers[i].acc_trade_price_24h # tickers[j].acc_trade_price_24h

\* the number of ticker records with a larger volume than record i
LargerThan(tickers, i) ==
    Cardinality({x \in 1..Len(tickers) :
        tickers[x].acc_trade_price_24h > tickers[i].acc_trade_price_24h})

\* C6: after a successful snapshot over N ticker records of distinct volumes
\* the list has min(N, 15) entries, holds exactly the records with fewer than
\* 15 larger ones, and is strictly descending by acc_trade_price_24h.
C6_TopFifteenByVolume ==
    (SnapshotSucceeded /\ DistinctVolumes(tickerData)) =>
        /\ Len(markets) = Min(Len(tickerData), 15)
        /\ \A j \in 1..(Len(markets) - 1) :
              markets[j].acc_trade_price_24h > markets[j + 1].acc_trade_price_24h
        /\ \A i \in 1..Len(tickerData) :
              (\E j \in 1..Len(markets) :
                  /\ markets[j].market = tickerData[i].market
                  /\ markets[j].acc_trade_price_24h = tickerData[i].acc_trade_price_24h)
              <=> LargerThan(tickerData, i) < 15

\* a snapshot over more than 15 records of distinct volumes, delivered smallest
\* first: the list starts with the last record and leaves out the first
C6_Witness ==
    /\ SnapshotSucceeded /\ DistinctVolumes(tickerData)
    /\ Len(tickerData) > 15
    /\ Len(markets) = 15
    /\ markets[1].market = tickerData[Len(tickerData)].market
    /\ \A j \in 1..15 : markets[j].market # tickerData[1].market

RECURSIVE Flatten(_)
Flatten(log) ==
    IF log = <<>> THEN <<>>
    ELSE Flatten(SubSeq(log, 1, Len(log) - 1)) \o log[Len(log)]

\* C7: a successful snapshot over N KRW codes issued ceil(N/100) ticker
\* requests, each of 1 to 100 codes, which together are the N codes in catalog
\* order.
C7_BatchesCoverCodes ==
    SnapshotSucceeded =>
        /\ Len(tickerLog) = (Len(krwMarkets) + 99) \div 100
        /\ \A b \in 1..Len(tickerLog) :
              Len(tickerLog[b]) >= 1 /\ Len(tickerLog[b]) <= 100
        /\ Flatten(tickerLog) = MarketCodes(krwMarkets)

\* 250 codes went out as three requests of 100, 100 and 50 codes
C7_Witness ==
    /\ SnapshotSucceeded
    /\ Len(krwMarkets) = 250
    /\ Len(tickerLog) = 3
    /\ Len(tickerLog[1]) = 100 /\ Len(tickerLog[2]) = 100 /\ Len(tickerLog[3]) = 50

\* C8: at most one ticker request is in flight, every request but the last
\* issued has been answered OK, and none is issued before the catalog answer.
C8_TickerRequestsSequential ==
    /\ Len(tickerLog) - Len(tickerAnswers) \in {0, 1}
    /\ \A k \in 1..(Len(tickerLog) - 1) :
          k <= Len(tickerAnswers) /\ tickerAnswers[k] = "ok"
    /\ catalogAnswer # "ok" => tickerLog = <<>>

\* the third batch is in flight after two answered ones
C8_Witness ==
    /\ snapPc = "ticker"
    /\ Len(tickerLog) = 3
    /\ tickerAnswers = <<"ok", "ok">>
    /\ Len(tickerData) = 2 * BATCH_SIZE

\* a catalog or ticker request was answered with a non-successful status
SnapshotGotNotOk ==
    \/ catalogAnswer = "notOk"
    \/ \E k \in 1..Len(tickerAnswers) : tickerAnswers[k] = "notOk"

\* C9: once a catalog or ticker request got a non-successful status, the
\* snapshot is over: that request is the last one issued, none is in flight,
\* the list is empty, error is the message with the HTTP status and
\* isLoading is false.
C9_NotOkAbortsSnapshot ==
    SnapshotGotNotOk =>
        /\ snapPc = "done"
        /\ Len(tickerLog) = Len(tickerAnswers)
        /\ \A k \in 1..(Len(tickerAnswers) - 1) : tickerAnswers[k] = "ok"
        /\ markets = <<>>
        /\ error.status \in FailureStatuses
        /\ error.msg = (IF catalogAnswer = "notOk"
                        THEN "Failed to fetch market list. Status: "
                        ELSE "Failed to fetch ticker data. Status: ")
        /\ isLoading = FALSE

\* the second of three batches got status 500 after the first had delivered
\* 100 records: nothing is stored and the third batch was never requested
C9_Witness ==
    /\ tickerAnswers = <<"ok", "notOk">>
    /\ Len(krwMarkets) = 250
    /\ Len(tickerData) = 100
    /\ Len(tickerLog) = 2
    /\ markets = <<>>
    /\ error = ErrorMsg("Failed to fetch ticker data. Status: ", 500)
    /\ isLoading = FALSE

----------------------------------------------------------------------------
(* Frame of the list (Spec) *)

\* b has the entries of a, in the same order, with the same market, names and
\* acc_trade_price_24h
SameRanking(a, b) ==
    /\ Len(b) = Len(a)
    /\ \A j \in 1..Len(a) :
          /\ b[j].market = a[j].market
          /\ b[j].korean_name = a[j].korean_name
          /\ b[j].english_name = a[j].english_name
          /\ b[j].acc_trade_price_24h = a[j].acc_trade_price_24h

\* C10: once the snapshot is over, no step changes the order, the length, the
\* market codes, the names or the acc_trade_price_24h of the list.
C10_RankingIsFixed ==
    [][snapPc = "done" => SameRanking(markets, markets')]_vars

\* two overlapping fetches have both merged their results, then the 24h view
\* was selected again, and the list is still the snapshot's ranking
C10_Witness ==
    /\ snapPc = "done"
    /\ Len(markets) = 2
    /\ Len(ops) = 2
    /\ \A o \in 1..2 : ops[o].writes = 1
    /\ selectedInterval = Baseline
    /\ \A j \in 1..2 : markets[j].changeRate = Undefined
    /\ markets[1].market = Code("KRW", 2) /\ markets[1].acc_trade_price_24h = 2
    /\ markets[2].market = Code("KRW", 1) /\ markets[2].acc_trade_price_24h = 1

----------------------------------------------------------------------------
(* Ordering of the two fetchers and overlapping interval fetches (Spec) *)

\* C11: whenever a candle request has been issued, fetchTopMarkets has
\* finished with every answer OK and has set a non-empty list.
C11_IntervalFetchAfterSnapshot ==
    ops # <<>> =>
        /\ snapPc = "done"
        /\ catalogAnswer = "ok"
        /\ tickerAnswers # <<>>
        /\ \A k \in 1..Len(tickerAnswers) : tickerAnswers[k] = "ok"
        /\ isLoading = FALSE
        /\ Len(markets) > 0
        /\ \A o \in 1..Len(ops) : ops[o].codes = MarketCodes(markets)

\* the first candle requests are pending, one per entry of the list the
\* snapshot has set
C11_Witness ==
    /\ Len(ops) = 1
    /\ snapPc = "done"
    /\ Len(markets) = 2
    /\ \A k \in 1..2 : ops[1].reqs[k].st = "pending"

\* the values call o computed for the market code
ResultFor(o, code) ==
    LET k == CHOOSE x \in 1..Len(ops[o].codes) : ops[o].codes[x] = code
    IN  [changeRate |-> ops[o].reqs[k].changeRate, rsi |-> ops[o].reqs[k].rsi]

\* C12: no fetch is cancelled or discarded: a fetch whose requests were all
\* fulfilled has written the list whatever was selected meanwhile, and every
\* entry holds what the update applied last gave it (the results of that
\* fetch, or undefined after a 24h reset), whichever interval is selected.
C12_LastUpdateWins ==
    /\ \A o \in 1..Len(ops) :
          (\A k \in 1..Len(ops[o].reqs) : ops[o].reqs[k].st = "fulfilled")
              => ops[o].pc = "done" /\ ops[o].writes = 1
    /\ \A j \in 1..Len(markets) :
          IF writer[j] = 0
          THEN markets[j].changeRate = Undefined /\ markets[j].rsi = Undefined
          ELSE /\ markets[j].changeRate = ResultFor(writer[j], markets[j].market).changeRate
               /\ markets[j].rsi = ResultFor(writer[j], markets[j].market).rsi

\* both fetches are over, 'days' is selected and its fetch delivered numbers,
\* but the list shows what the earlier 'minutes/1' fetch wrote afterwards
C12_Witness ==
    /\ Len(ops) = 2 /\ Len(markets) = 2
    /\ ops[1].interval = "minutes/1" /\ ops[2].interval = "days"
    /\ selectedInterval = "days"
    /\ \A o \in 1..2 : ops[o].pc = "done" /\ ops[o].writes = 1
    /\ \A k \in 1..2 : ops[1].reqs[k].outcome = "empty"
    /\ \A k \in 1..2 : ops[2].reqs[k].outcome = "full"
    /\ \A j \in 1..2 : writer[j] = 1 /\ markets[j].changeRate = Null

\* the payloads of an OK response that carry no candle: JSON null, an empty
\* array, a body json() cannot read
NoCandlePayloads == {"null", "empty", "badBody"}

\* C13 (as claimed): when every candle request of a fetch gets an OK response
\* and some payloads are empty or malformed, the fetch ends by updating the
\* list, with null/null for those markets and numbers for the markets with a
\* full payload, and does not set the error state.
C13_EmptyOrMalformedIsLocal ==
    [][\A o \in 1..Len(ops) :
          ( /\ Completes(o)
            /\ WithOutcome(o, NoCandlePayloads) # {}
            /\ WithOutcome(o, NoCandlePayloads \cup {"full"}) = 1..Len(ops[o].reqs) )
          => /\ ops'[o].writes = 1
             /\ ListShowsResultsOf(o, NoCandlePayloads)
             /\ error' = error]_vars

\* C17: a selection made while the list is empty issues no candle request,
\* and the step in which the snapshot sets a non-empty list while a non-24h
\* interval is selected starts one fetch for that interval with one pending
\* candle request per market of the list, in list order.
C17_DeferredIntervalFetch ==
    [][ /\ (selectedInterval' # selectedInterval /\ Len(markets) = 0)
            => ops' = ops /\ ops = <<>> /\ isIntervalLoading' = isIntervalLoading
        /\ ( /\ snapPc # "done" /\ snapPc' = "done"
             /\ Len(markets') > 0
             /\ selectedInterval # Baseline )
            => /\ selectedInterval' = selectedInterval
               /\ Len(ops') = 1
               /\ ops'[1].interval = selectedInterval
               /\ ops'[1].pc = "waiting"
               /\ Len(ops'[1].reqs) = Len(markets')
               /\ \A j \in 1..Len(markets') :
                     /\ ops'[1].codes[j] = markets'[j].market
                     /\ ops'[1].reqs[j].st = "pending"
               /\ isIntervalLoading' = TRUE ]_vars

\* 'days' was selected while the ticker request of a two-market catalog is
\* awaited: the list is empty and no candle request has been issued
C17_Witness ==
    /\ snapPc = "ticker" /\ isLoading
    /\ upstream.n = 2
    /\ selectedInterval = "days"
    /\ markets = <<>>
    /\ ops = <<>>
    /\ ~isIntervalLoading

\* C18 (as claimed): the interval-loading flag is set whenever some interval
\* fetch has not run its continuation yet.
C18_LoadingWhileInFlight ==
    (\E o \in 1..Len(ops) : ops[o].pc = "waiting") => isIntervalLoading

\* line 231: the market list is rendered
ListShown == ~isLoading /\ error = NoError

\* C19: once the snapshot fetch has finished, no step takes the error back to
\* null, so the list is not rendered again.
C19_ErrorIsMonotone ==
    [][(snapPc = "done" /\ error # NoError)
          => (error' = error \/ error' = IntervalError) /\ error' # NoError /\ ~ListShown']_vars

\* one fetch failed, the other one wrote the list, 24h was selected after
\* that write, and the error is still there
C19_Witness ==
    /\ snapPc = "done" /\ error = IntervalError
    /\ selectedInterval = Baseline
    /\ Len(ops) = 2 /\ Len(markets) = 2
    /\ ops[1].pc = "done" /\ ops[1].writes = 0
    /\ ops[2].pc = "done" /\ ops[2].writes = 1
    /\ \A j \in 1..2 : writer[j] = 0
    /\ ~ListShown

----------------------------------------------------------------------------
(* calculateRSI on its own (SpecRSI) *)

\* the price sequences of length 0..MaxLen over 1..MaxPrice
PriceSeqs == UNION {[1..len -> 1..MaxPrice] : len \in 0..MaxLen}

\* calculateRSI(prices, period) is entered
RSICalls ==
    [fn : {"calculateRSI"}, pc : {"called"},
     prices : PriceSeqs, period : 1..MaxPeriod,
     avgGain : {RInt(0)}, avgLoss : {RInt(0)}, result : {Undefined}]

\* the call runs to its return; avgGain and avgLoss keep the values the two
\* variables are initialised with (0 when the guard returns before)
ReturnRSI ==
    /\ call.fn = "calculateRSI" /\ call.pc = "called"
    /\ call' = [call EXCEPT
                  !.pc = "returned",
                  !.avgGain = IF Len(call.prices) <= call.period THEN RInt(0)
                              ELSE SeedAvgGain(call.prices, call.period),
                  !.avgLoss = IF Len(call.prices) <= call.period THEN RInt(0)
                              ELSE SeedAvgLoss(call.prices, call.period),
                  !.result = calculateRSI(call.prices, call.period)]
    /\ UNCHANGED appVars

InitRSI ==
    /\ InitApp
    /\ upstream = [n |-> 0, other |-> 1, pat |-> "asc"]
    /\ call \in RSICalls

NextRSI == ReturnRSI

SpecRSI == InitRSI /\ [][NextRSI]_vars

\* C14: calculateRSI returns null exactly for the price sequences no longer
\* than the period, and a number for every longer one.
C14_NullIffTooShort ==
    (call.fn = "calculateRSI" /\ call.pc = "returned") =>
        /\ Len(call.prices) <= call.period => call.result = Null
        /\ Len(call.prices) > call.period => IsNum(call.result)

\* the boundary of the guard: a sequence exactly as long as the largest period
\* has returned null
C14_Witness ==
    /\ call.fn = "calculateRSI" /\ call.pc = "returned"
    /\ call.period = MaxPeriod
    /\ Len(call.prices) = call.period
    /\ call.result = Null

\* the i-th delta of prices
Delta(prices, i) == prices[i + 1] - prices[i]

RECURSIVE SumOf(_, _, _)
\* the sum of |Delta(prices, i)| over the indexes i of S
SumOf(prices, S, n) ==
    IF n = 0 THEN 0
    ELSE SumOf(prices, S, n - 1) + (IF n \in S THEN Abs(Delta(prices, n)) ELSE 0)

\* the indexes of the positive / negative deltas among the first period deltas
GainIndexes(prices, period) == {i \in 1..period : Delta(prices, i) > 0}

LossIndexes(prices, period) == {i \in 1..period : Delta(prices, i) < 0}

\* the mean of |Delta(prices, i)| over S, 0 if S is empty
MeanOf(prices, S, period) ==
    IF S = {} THEN RInt(0) ELSE Rat(SumOf(prices, S, period), Cardinality(S))

\* C15 (as claimed): the seed average gain is the mean of the positive deltas
\* among the first P deltas (0 if none), the seed average loss the mean of the
\* absolute values of the negative ones (0 if none).
C15_SeedsAreMeans ==
    (call.fn = "calculateRSI" /\ call.pc = "returned"
        /\ Len(call.prices) > call.period) =>
        /\ call.avgGain = MeanOf(call.prices, GainIndexes(call.prices, call.period), call.period)
        /\ call.avgLoss = MeanOf(call.prices, LossIndexes(call.prices, call.period), call.period)

\* C15 (amended): the seed average gain is the sum of the positive deltas
\* among the first P deltas divided by P, the seed average loss the sum of the
\* absolute values of the negative ones divided by P (both 0 if there are none).
C15_SeedsAreSumsOverPeriod ==
    (call.fn = "calculateRSI" /\ call.pc = "returned"
        /\ Len(call.prices) > call.period) =>
        /\ call.avgGain =
             Rat(SumOf(call.prices, GainIndexes(call.prices, call.period), call.period),
                 call.period)
        /\ call.avgLoss =
             Rat(SumOf(call.prices, LossIndexes(call.prices, call.period), call.period),
                 call.period)

\* period 3 over the prices 1, 3, 2, 2: one gain of 2 and one loss of 1 among
\* three deltas give the seeds 2/3 and 1/3, not the means 2 and 1
C15_Witness ==
    /\ call.fn = "calculateRSI" /\ call.pc = "returned"
    /\ call.period = 3 /\ call.prices = <<1, 3, 2, 2>>
    /\ call.avgGain = Rat(2, 3) /\ call.avgLoss = Rat(1, 3)

----------------------------------------------------------------------------
(* The list update of fetchIntervalData on its own (SpecMerge) *)

\* the ranked list of a catalog of n KRW markets
RankedList(n) ==
    LET u == [n |-> n, other |-> 1, pat |-> "asc"]
        krw == FilterKrw(Catalog(u))
    IN  TopMarkets(TickerBody(u, MarketCodes(krw)), krw)

\* the values an entry can hold before an update
PriorValues == {Undefined, Null, Num(RInt(1))}

\* the lists the updater can be given: a ranked list whose entries hold any
\* earlier values
CurrentLists ==
    UNION {{[j \in 1..n |-> [RankedList(n)[j] EXCEPT !.changeRate = cr[j],
                                                     !.rsi = rs[j]]] :
              cr \in [1..n -> PriorValues], rs \in [1..n -> PriorValues]} :
           n \in 1..MaxMarkets}

\* the results of a fetch over the markets of S, each from a non-OK response
\* or from a full body
ResultsOver(ms, S) ==
    LET codes == SelectSeq(MarketCodes(ms), LAMBDA c : c \in S)
    IN  {[codes |-> codes, reqs |-> reqs] :
            reqs \in [1..Len(codes) -> {SettledRequest("notOk"), SettledRequest("full")}]}

\* the updater of line 184 is entered with a list and a result set covering
\* any part of it
MergeCalls ==
    UNION {{[fn |-> "merge", pc |-> "called", currentMarkets |-> ms,
             codes |-> r.codes, reqs |-> r.reqs, merged |-> <<>>] :
              r \in UNION {ResultsOver(ms, S) :
                             S \in SUBSET {ms[j].market : j \in 1..Len(ms)}}} :
           ms \in CurrentLists}

\* the updater returns the new list
ReturnMerge ==
    /\ call.fn = "merge" /\ call.pc = "called"
    /\ call' = [call EXCEPT
                  !.pc = "returned",
                  !.merged = Merge(call.currentMarkets, call.codes, call.reqs)]
    /\ UNCHANGED appVars

InitMerge ==
    /\ InitApp
    /\ upstream = [n |-> 0, other |-> 1, pat |-> "asc"]
    /\ call \in MergeCalls

NextMerge == ReturnMerge

SpecMerge == InitMerge /\ [][NextMerge]_vars

----------------------------------------------------------------------------
(* Termination of the two fetchers (FairSpec) *)

\* some pending candle request settles
SomeCandleSettles ==
    \E o \in 1..Len(ops) : \E k \in 1..Len(ops[o].reqs) :
        \E outcome \in CandleOutcomes : CandleSettles(o, k, outcome)

\* every request issued is answered in the end: the catalog request, the
\* ticker request in flight, every pending candle request; the user is free
\* to click or not
FairSpec ==
    /\ Init
    /\ [][Next]_vars
    /\ WF_vars(CatalogResponse)
    /\ WF_vars(TickerResponse)
    /\ WF_vars(SomeCandleSettles)

\* C20: when every request settles, isLoading ends false for good, and so
\* does isIntervalLoading once the selections have stopped, whatever the
\* outcomes are and however the fetches overlap.
C20_LoadingFlagsSettle ==
    /\ <>[](isLoading = FALSE)
    /\ <>[](isIntervalLoading = FALSE)

\* two overlapping fetches have ended, one by a rejection and one by a list
\* update, every request is settled and both flags are down
C20_Witness ==
    /\ snapPc = "done" /\ isLoading = FALSE
    /\ Len(ops) = 2
    /\ \A o \in 1..2 : \A k \in 1..Len(ops[o].reqs) : ops[o].reqs[k].st # "pending"
    /\ \E o \in 1..2 : ops[o].pc = "done" /\ ops[o].writes = 0
    /\ \E o \in 1..2 : ops[o].pc = "done" /\ ops[o].writes = 1
    /\ isIntervalLoading = FALSE

=============================================================================
